---- MODULE Spec2Model ----
(***************************************************************************)
(* A model of nlp_kafka_rest_api/kafka_rest.py: the Consumer of the Kafka  *)
(* REST proxy client (session life cycle, consume_latest, the consume      *)
(* generator), the record decoding it relies on, and the Producer.         *)
(*                                                                         *)
(* The proxy is the environment: every request the client issues is        *)
(* answered nondeterministically, either with a non-2xx status (which      *)
(* Client.request turns into requests.exceptions.HTTPError) or with a      *)
(* response body drawn from a small set.                                   *)
(***************************************************************************)
EXTENDS Integers, Sequences, FiniteSets, TLC

(***************************************************************************)
(* Python values.  A value is a record [t, v]: its type and its content.   *)
(***************************************************************************)
Str(s) == [t |-> "str", v |-> s]
Bytes(s) == [t |-> "bytes", v |-> s]
Dict(s) == [t |-> "dict", v |-> s]
PyNone == [t |-> "NoneType", v |-> "None"]

\* hash(x): dict (and list) values are unhashable, `x in some_set` raises TypeError
Hashable(x) == x.t # "dict"

\* The outcome of a call: a returned value or a raised exception.
Return(x) == [ok |-> TRUE, val |-> x, exc |-> "none"]
Raise(e) == [ok |-> FALSE, val |-> PyNone, exc |-> e]

(***************************************************************************)
(* The strings of the model and what the library functions do on them.     *)
(*   k1 k2 k3 v1 v2  text that is not JSON; as base64 it decodes to bytes  *)
(*                   that are not UTF-8 (like "key1")                      *)
(*   jobj            the JSON text of an object, like {"a": 1}             *)
(*   b64k1           base64 of the JSON text "k1" (a JSON string)          *)
(*   b64raw          base64 of bytes that are text but not JSON            *)
(*   pad             text that is not JSON and not base64 (bad padding)    *)
(***************************************************************************)
TextStrings == {"k1", "k2", "k3", "v1", "v2"}

\* json.loads on a str or on bytes
json_loads(x) ==
    CASE x.t = "str" /\ x.v = "jobj" -> Return(Dict("obj"))
      [] x.t = "bytes" /\ x.v = "json_k1" -> Return(Str("k1"))
      [] x.t = "bytes" /\ x.v = "raw" -> Raise("JSONDecodeError")
      [] x.t = "bytes" /\ x.v = "not_utf8" -> Raise("UnicodeDecodeError")
      [] OTHER -> Raise("JSONDecodeError")

\* base64.b64decode on a str
b64decode(x) ==
    CASE x.v \in TextStrings -> Return(Bytes("not_utf8"))
      [] x.v = "b64k1" -> Return(Bytes("json_k1"))
      [] x.v = "b64raw" -> Return(Bytes("raw"))
      [] OTHER -> Raise("binascii.Error")

\* Consumer.decode_base64, with the exception it lets through
decode_base64(string) ==
    IF string.t = "dict" THEN Return(string)
    ELSE IF string.t = "str" THEN
        IF json_loads(string).ok THEN json_loads(string)
        ELSE \* except json.decoder.JSONDecodeError
            LET decode == b64decode(string) IN
            IF ~decode.ok THEN decode
            ELSE IF json_loads(decode.val).ok THEN json_loads(decode.val)
            ELSE IF json_loads(decode.val).exc = "UnicodeDecodeError"
                 THEN Return(string)
            ELSE \* except json.decoder.JSONDecodeError
                 b64decode(string)
    ELSE Return(string)

\* Consumer.parse_record: the key is decoded first, then the value; a record
\* is [key, value]
Rec(k, v) == [key |-> k, value |-> v]

parse_record(record) ==
    LET k == decode_base64(record.key)
        v == decode_base64(record.value)
    IN  IF ~k.ok THEN [ok |-> FALSE, rec |-> Rec(PyNone, PyNone), exc |-> k.exc]
        ELSE IF ~v.ok THEN [ok |-> FALSE, rec |-> Rec(PyNone, PyNone), exc |-> v.exc]
        ELSE [ok |-> TRUE, rec |-> Rec(k.val, v.val), exc |-> "none"]

\* [self.parse_record(r) for r in response.json()]: the decoded records, or
\* the first exception
RECURSIVE parse_all(_)
parse_all(raws) ==
    IF raws = <<>> THEN [ok |-> TRUE, recs |-> <<>>, exc |-> "none"]
    ELSE LET h == parse_record(Head(raws))
             t == parse_all(Tail(raws))
         IN  IF ~h.ok THEN [ok |-> FALSE, recs |-> <<>>, exc |-> h.exc]
             ELSE IF ~t.ok THEN t
             ELSE [ok |-> TRUE, recs |-> <<h.rec>> \o t.recs, exc |-> "none"]

(***************************************************************************)
(* Bounds and the inputs drawn within them.                                *)
(***************************************************************************)
MaxKeys == 2        \* longest key list given to consume
MaxRecords == 2     \* most records in one poll answer
MaxPolls == 2       \* most polls of one consume iteration
MaxProduces == 2    \* most produce calls that succeed
MaxDecodes == 2     \* most decode_base64 calls

RequestKeys == {Str("k1"), Str("k2")}
\* The records a poll answer is made of, as the proxy sends them: the two
\* requested keys (k1 with either value, and also as base64 of JSON), an
\* unrelated key, an object key, a key that is not base64.
RawRecords ==
    {Rec(Str(k), Str("v1")) : k \in {"k1", "k2", "k3", "b64k1", "jobj", "pad"}}
        \cup {Rec(Str("k1"), Str("v2"))}

SeqsUpTo(S, n) == UNION {[1..m -> S] : m \in 0..n}
ToSet(s) == {s[i] : i \in 1..Len(s)}

KeyLists == SeqsUpTo(RequestKeys, MaxKeys)
Intervals == {-1, 0, 1}

\* What the proxy may answer to GET .../records: a non-2xx status, or a list
\* of records.
PollAnswers ==
    {[ok |-> FALSE, body |-> <<>>]}
        \cup {[ok |-> TRUE, body |-> b] : b \in SeqsUpTo(RawRecords, MaxRecords)}

(***************************************************************************)
(* Consumer.consume_earliest: GET .../records, then parse every record.    *)
(* An answer is [ok, body]: ok is response.ok, body is response.json().    *)
(***************************************************************************)
consume_earliest(ok, body) ==
    IF ~ok THEN [ok |-> FALSE, recs |-> <<>>, exc |-> "HTTPError"]
    ELSE parse_all(body)

(***************************************************************************)
(* The Producer's inputs.  Sizes are in units: the envelope of a request   *)
(* body counts one, and so does every record and every schema field.       *)
(***************************************************************************)
IntVal(n) == [t |-> "int", v |-> n]
\* the decimal text of n, as the environment holds it
Text(n) == [t |-> "str", v |-> n]
List(s) == [t |-> "list", v |-> s]

\* len(messages): an empty batch, one message, two
BatchSizes == {0, 1, 2}

\* the keys argument of produce: None (the default) or a list, of no key, of
\* one, of two, of more than any batch has messages
KeysArgs ==
    {PyNone} \cup
        {List(k) : k \in {<<>>, <<Str("k1")>>, <<Str("k2")>>, <<Str("k1"), Str("k2")>>,
                          <<Str("k1"), Str("k2"), Str("k1")>>}}

\* the schema fields given to produce: none, or one
Schemas == {0, 1}

\* len(json.dumps(records).encode("utf-8"))
body_size(len_messages, schemas) == 1 + len_messages + schemas

\* the default of producer_data_max_size (64 MiB): more than any body here
producer_data_max_size == IntVal(body_size(2, 1) + 1)

\* the maximum a producer is made with: the constructor's argument, or the
\* text of the environment variable PRODUCER_DATA_MAX_SIZE
ProducerConfigs == {IntVal(2), IntVal(3), Text(2)}

\* str(uuid4()) for each message
UuidNames == <<"uuid1", "uuid2">>
UuidKeys(len_messages) == [i \in 1..len_messages |-> Str(UuidNames[i])]

(***************************************************************************)
(* State.                                                                  *)
(***************************************************************************)
VARIABLES
    created,          \* Consumer.created
    remaining_keys,   \* Consumer.remaining_keys
    gen,              \* the generator consume() returned: [pc, keys, interval]
    gen_exc,          \* the exception that ended the generator, or "none"
    seen,             \* requested keys found in the poll results of this iteration
    repeated,         \* requested keys the poll results held more than once
    yields,           \* what the generator has yielded: [batch, remaining] each
    io,               \* sleeps made and polls issued by this iteration
    cl,               \* the running consume_latest call: its place and locals
    prelude,          \* the requests consume_latest issued before its loop
    att,              \* the current attempt: its requests and the answers to them
    n_offsets,        \* offsets queries issued by this consume_latest call
    calls,            \* the calls made on the consumer: [op, before, exc] each
    log,              \* the requests those calls issued: [req, ok, call] each
    max_data_bytes,   \* Producer.max_data_bytes
    key_history,      \* Producer.key_history
    key_last_request, \* Producer.key_last_request
    accepted,         \* the key lists of the produce calls that succeeded, in order
    pcall,            \* the last produce call: its arguments and what came of it
    decoded,          \* the decode_base64 calls made: [input, outcome] each
    scope             \* "in" inside a `with consumer:` block, else "out"

consumerVars == <<created, remaining_keys>>
genVars == <<gen, gen_exc, seen, repeated, yields, io>>
latestVars == <<cl, prelude, att, n_offsets>>
sessVars == <<calls, log, scope>>
producerVars == <<max_data_bytes, key_history, key_last_request, accepted, pcall>>
decodeVars == <<decoded>>
vars == <<created, remaining_keys, gen, gen_exc, seen, repeated, yields, io,
          cl, prelude, att, n_offsets, calls, log, scope,
          max_data_bytes, key_history, key_last_request, accepted, pcall, decoded>>

NoGen == [pc |-> "none", keys |-> <<>>, interval |-> 0]
NoIo == [sleeps |-> 0, polls |-> 0]

\* no consume_latest call yet
NoCall == [pc |-> "idle", partitions |-> <<>>, retry |-> 0, partid |-> 0, latestoffset |-> 0,
           response_decode |-> PyNone, exc |-> "none", raised_at |-> "none"]
NoAttempt == [reqs |-> <<>>, offsets |-> <<>>, polled |-> <<>>, http_error |-> "none"]

\* Consumer.__init__ (the generator and the histories are the caller's)
ConsumerInit ==
    /\ created = FALSE
    /\ remaining_keys = {}
    /\ gen = NoGen
    /\ gen_exc = "none"
    /\ seen = {}
    /\ repeated = {}
    /\ yields = <<>>
    /\ io = NoIo
    /\ cl = NoCall
    /\ prelude = <<>>
    /\ att = NoAttempt
    /\ n_offsets = 0
    /\ calls = <<>>
    /\ log = <<>>
    /\ scope = "out"

\* no produce call yet
NoProduce == [messages |-> 0, keys |-> PyNone, used |-> <<>>, size |-> 0,
              sent |-> FALSE, exc |-> "none"]

\* Producer.__init__; max_data_size is what
\* os.environ.get('PRODUCER_DATA_MAX_SIZE', producer_data_max_size) gave
ProducerInit(max_data_size) ==
    /\ max_data_bytes = max_data_size
    /\ key_history = <<>>
    /\ key_last_request = <<>>
    /\ accepted = <<>>
    /\ pcall = NoProduce

\* a consumer and a producer with the default maximum, nothing decoded yet
Init ==
    /\ ConsumerInit
    /\ ProducerInit(producer_data_max_size)
    /\ decoded = <<>>

(***************************************************************************)
(* Consumer.consume, a generator: consume(keys, interval_sec) runs nothing *)
(* and returns the generator; each next() runs it to its next yield, to    *)
(* its end (StopIteration) or to an exception.                             *)
(***************************************************************************)

\* a list where the code builds a dict: every matching record is kept
DictPut_as_list(data, d) == Append(data, d)

\* data[d['key']] = d: a key already in the dict keeps its place and takes
\* the new record; a new key goes last
DictPut(data, d) ==
    IF \E i \in 1..Len(data) : data[i].key = d.key
    THEN [i \in 1..Len(data) |-> IF data[i].key = d.key THEN d ELSE data[i]]
    ELSE Append(data, d)

\* if d['key'] in self.remaining_keys
still_pending(d, pending) == d.key \in pending

\* {d['key']: d for d in records if d['key'] in pending}, as the list of its
\* values in dict order; TypeError at the first unhashable key
RECURSIVE consume_data(_, _, _)
consume_data(records, pending, data) ==
    IF records = <<>> THEN [ok |-> TRUE, recs |-> data, exc |-> "none"]
    ELSE LET d == Head(records) IN
         IF ~Hashable(d.key) THEN [ok |-> FALSE, recs |-> <<>>, exc |-> "TypeError"]
         ELSE consume_data(Tail(records), pending,
                           IF still_pending(d, pending) THEN DictPut(data, d)
                           ELSE data)

KeysOf(records) == {records[i].key : i \in 1..Len(records)}

\* the requested keys that a poll result holds twice, or holds after an
\* earlier poll result held them
Repeats(records, before, requested) ==
    {k \in requested :
        \/ k \in before /\ k \in KeysOf(records)
        \/ Cardinality({i \in 1..Len(records) : records[i].key = k}) >= 2}

\* the matched keys are not taken out of the pending set
remaining_after_unchanged(pending, data) == pending

\* self.remaining_keys - set(data)
remaining_after(pending, data) == pending \ KeysOf(data)

\* while self.remaining_keys:
loop_continues(pending) == pending # {}

\* any interval is accepted
interval_unchecked(interval_sec) == FALSE

\* if interval_sec < 0: raise ValueError
interval_invalid(interval_sec) == interval_sec < 0

\* consume(keys, interval_sec): the call itself only makes the generator
ConsumeCall ==
    /\ \E keys \in KeyLists, interval \in Intervals :
          gen' = [pc |-> "fresh", keys |-> keys, interval |-> interval]
    /\ gen_exc' = "none"
    /\ seen' = {}
    /\ repeated' = {}
    /\ yields' = <<>>
    /\ io' = NoIo
    /\ UNCHANGED <<consumerVars, latestVars, sessVars, producerVars, decodeVars>>

GenEnds(pending, how, exc) ==
    /\ gen' = [gen EXCEPT !.pc = how]
    /\ gen_exc' = exc
    /\ remaining_keys' = pending
    /\ UNCHANGED <<created, yields>>

\* next() on the generator
ConsumeNext ==
    /\ gen.pc \in {"fresh", "suspended"}
    /\ UNCHANGED <<latestVars, sessVars, producerVars, decodeVars>>
    /\ IF gen.pc = "fresh" /\ interval_invalid(gen.interval)
       THEN GenEnds(remaining_keys, "raised", "ValueError")
            /\ UNCHANGED <<seen, repeated, io>>
       ELSE LET pending == IF gen.pc = "fresh" THEN ToSet(gen.keys)
                           ELSE remaining_keys
            IN  IF ~loop_continues(pending)
                THEN GenEnds(pending, "done", "none") /\ UNCHANGED <<seen, repeated, io>>
                ELSE /\ Len(yields) < MaxPolls
                     /\ io' = [sleeps |-> io.sleeps + 1, polls |-> io.polls + 1]
                     /\ \E answer \in PollAnswers :
                        LET poll == consume_earliest(answer.ok, answer.body)
                            data == consume_data(poll.recs, pending, <<>>)
                        IN  /\ seen' = seen \cup (ToSet(gen.keys) \cap KeysOf(poll.recs))
                            /\ repeated' = repeated \cup Repeats(poll.recs, seen, ToSet(gen.keys))
                            /\ IF ~poll.ok THEN GenEnds(pending, "raised", poll.exc)
                               ELSE IF ~data.ok THEN GenEnds(pending, "raised", data.exc)
                               ELSE /\ remaining_keys' = remaining_after(pending, data.recs)
                                    /\ yields' = Append(yields,
                                           [batch |-> data.recs,
                                            remaining |-> remaining_after(pending, data.recs)])
                                    /\ gen' = [gen EXCEPT !.pc = "suspended"]
                                    /\ UNCHANGED <<created, gen_exc>>

NextConsume == ConsumeCall \/ ConsumeNext

SpecConsume == Init /\ [][NextConsume]_vars

(***************************************************************************)
(* Properties of consume.                                                  *)
(***************************************************************************)
Requested == ToSet(gen.keys)

\* the generator has polled at least once and every poll gave a result
\* (no request failed, every record could be decoded)
PolledWithResults ==
    /\ gen.pc \in {"suspended", "done", "raised"}
    /\ gen_exc \notin {"ValueError", "HTTPError", "binascii.Error"}

\* the pending set a poll started from: the requested keys at the first
\* poll, the set yielded before it afterwards
PendingBefore(i) == IF i = 1 THEN Requested ELSE yields[i - 1].remaining

\* the places (batch, position) where key k was yielded
YieldedAt(k) ==
    {p \in {<<i, j>> : i \in 1..Len(yields), j \in 1..(MaxRecords + 1)} :
        /\ p[2] <= Len(yields[p[1]].batch)
        /\ yields[p[1]].batch[p[2]].key = k}

YieldedUpTo(n) == UNION {KeysOf(yields[i].batch) : i \in 1..n}

\* C1: for every sequence of poll results, the iteration ends as soon as
\* every requested key has appeared in a poll result, the remaining-keys set
\* (the field and the set yielded last) being empty then; while a requested
\* key has not appeared the iteration does not end.
C1_EndsExactlyWhenAllKeysSeen ==
    PolledWithResults =>
        /\ (seen = Requested) =>
              /\ remaining_keys = {}
              /\ yields # <<>> => yields[Len(yields)].remaining = {}
        /\ (seen # Requested) => gen.pc = "suspended"

\* C2: the yielded batches hold only records whose key was requested and
\* still pending when polled, and each requested key is yielded in at most
\* one record of one batch, in exactly one once the iteration has ended.
C2_YieldsPendingKeysOnce ==
    /\ \A i \in 1..Len(yields) :
          KeysOf(yields[i].batch) \subseteq (Requested \cap PendingBefore(i))
    /\ \A k \in Requested :
          /\ Cardinality(YieldedAt(k)) <= 1
          /\ gen.pc = "done" => Cardinality(YieldedAt(k)) = 1

\* both requested keys came back more than once (twice in one poll, or
\* again in a later poll), were yielded in two batches, and the iteration
\* ended
C2_Witness ==
    /\ gen.pc = "done"
    /\ Len(yields) = 2
    /\ repeated = {Str("k1"), Str("k2")}
    /\ KeysOf(yields[1].batch) = {Str("k1")}
    /\ KeysOf(yields[2].batch) = {Str("k2")}

\* C3: the pending set only shrinks: after each poll step it is a subset of
\* the one before, it is the requested keys minus all keys yielded so far,
\* and the set yielded with the batch is that set.
C3_RemainingShrinks ==
    /\ \A i \in 1..Len(yields) :
          /\ yields[i].remaining \subseteq PendingBefore(i)
          /\ yields[i].remaining = Requested \ YieldedUpTo(i)
    /\ (gen.pc \in {"suspended", "done", "raised"} /\ gen_exc # "ValueError") =>
          remaining_keys = IF yields = <<>> THEN Requested
                           ELSE yields[Len(yields)].remaining

\* two polls, each taking one of the two requested keys
C3_Witness ==
    /\ Len(yields) = 2
    /\ Requested = {Str("k1"), Str("k2")}
    /\ Cardinality(yields[1].remaining) = 1
    /\ yields[2].remaining = {}
    /\ remaining_keys = {}

\* C19: the iteration of consume called with a negative interval_sec fails
\* with ValueError before any sleep or poll and without changing the pending
\* set; the iteration of consume called with no key (and a valid interval)
\* ends at once: nothing is yielded, no poll is issued.
C19_ValidatesBeforePolling ==
    /\ [][(gen.pc = "fresh" /\ gen.interval < 0 /\ gen'.pc # "fresh") =>
            /\ gen'.pc = "raised" /\ gen_exc' = "ValueError"
            /\ remaining_keys' = remaining_keys
            /\ io' = NoIo /\ yields' = <<>>]_vars
    /\ [](gen.interval < 0 => (gen.pc \in {"fresh", "raised"} /\ io = NoIo))
    /\ []((gen.keys = <<>> /\ gen.interval >= 0 /\ gen.pc # "none") =>
            /\ gen.pc \in {"fresh", "done"}
            /\ io = NoIo /\ yields = <<>>
            /\ gen.pc = "done" => (gen_exc = "none" /\ remaining_keys = {}))

\* an earlier iteration left k2 pending; consume(["k1"], -1) was then
\* iterated and raised, k2 still pending
C19_Witness ==
    /\ gen = [pc |-> "raised", keys |-> <<Str("k1")>>, interval |-> -1]
    /\ gen_exc = "ValueError"
    /\ remaining_keys = {Str("k2")}
    /\ io = NoIo

(***************************************************************************)
(* Consumer.consume_latest.  Every request is one step; the proxy answers  *)
(* each with a non-2xx status or with a body.                              *)
(***************************************************************************)

\* the requests consume_latest issues
PartitionsReq == [kind |-> "partitions"]
\* consume_latest subscribes where it should assign
AssignReq_as_subscription(p) == [kind |-> "subscription"]
AssignReq(p) == [kind |-> "assignments", partition |-> p]
OffsetsReq(p) == [kind |-> "offsets", partition |-> p]
SeekReq(p, o) == [kind |-> "positions", partition |-> p, offset |-> o]
RecordsReq == [kind |-> "records"]

\* the answers to GET /topics/{topic}/partitions: the body lists partition ids
PartitionsAnswers ==
    {[ok |-> FALSE, body |-> <<>>]}
        \cup {[ok |-> TRUE, body |-> b] : b \in {<<>>, <<0>>, <<1>>, <<1, 0>>}}

\* the answers to GET .../offsets: the body's end_offset
OffsetsAnswers ==
    {[ok |-> FALSE, end_offset |-> 0]}
        \cup {[ok |-> TRUE, end_offset |-> e] : e \in {-1, 0, 1, 2}}

\* retry=10
RetryBudget == 10

\* while retry>0
while_retry(retry) == retry > 0

\* an attempt that fails is not counted
used_attempt_not_counted(retry) == retry

\* retry=retry-1
used_attempt(retry) == retry - 1

\* the empty topic is told by a negative offset only
is_empty_if_negative(latestoffset) == latestoffset < 0

\* if latestoffset<=0: break
is_empty(latestoffset) == latestoffset <= 0

\* the seek goes to the end offset itself
seek_target_is_end(end_offset) == end_offset

\* latestoffset=latestoffset-1
seek_target(end_offset) == end_offset - 1

\* for message in self.consume_earliest(): response_decode=message
drain(response_decode, records) ==
    IF records = <<>> THEN response_decode ELSE records[Len(records)]

\* no exception is caught in the loop
catches_nothing(exc) == FALSE

\* except requests.exceptions.HTTPError
catches(exc) == exc = "HTTPError"

\* the partition is the last one listed
last_partition(partitions) == partitions[Len(partitions)]

\* partid=partitions[0]["partition"]
first_partition(partitions) == partitions[1]

\* the end of an attempt that did not break: retry=retry-1, then the loop test
next_attempt(c) ==
    LET r == used_attempt(c.retry)
    IN  [c EXCEPT !.retry = r,
                  !.pc = IF while_retry(r) THEN "offsets" ELSE "returned"]

latest_raises(c, at, exc) ==
    [c EXCEPT !.pc = "raised", !.exc = exc, !.raised_at = at]

\* an exception raised inside the try block
attempt_raises(c, at, exc) ==
    IF catches(exc) THEN next_attempt(c) ELSE latest_raises(c, at, exc)

\* consumer.consume_latest() is called
LatestCall ==
    /\ cl.pc \in {"idle", "returned", "raised"}
    /\ cl' = [NoCall EXCEPT !.pc = "partitions"]
    /\ prelude' = <<>>
    /\ att' = NoAttempt
    /\ n_offsets' = 0
    /\ UNCHANGED <<consumerVars, genVars, sessVars, producerVars, decodeVars>>

\* partitions = self.partitions(self.topic_id); partid=partitions[0]["partition"]
LatestPartitions ==
    /\ cl.pc = "partitions"
    /\ prelude' = Append(prelude, PartitionsReq)
    /\ \E answer \in PartitionsAnswers :
          cl' = IF ~answer.ok THEN latest_raises(cl, "partitions", "HTTPError")
                ELSE IF answer.body = <<>>
                     THEN latest_raises(cl, "partitions", "IndexError")
                ELSE [cl EXCEPT !.pc = "assign", !.partitions = answer.body,
                                !.partid = first_partition(answer.body)]
    /\ UNCHANGED <<consumerVars, genVars, sessVars, att, n_offsets, producerVars, decodeVars>>

\* self.assign(...); response_decode=None; retry=10; the first loop test
LatestAssign ==
    /\ cl.pc = "assign"
    /\ prelude' = Append(prelude, AssignReq(cl.partid))
    /\ \E ok \in BOOLEAN :
          cl' = IF ~ok THEN latest_raises(cl, "assign", "HTTPError")
                ELSE [cl EXCEPT !.response_decode = PyNone,
                                !.retry = RetryBudget,
                                !.pc = IF while_retry(RetryBudget) THEN "offsets"
                                       ELSE "returned"]
    /\ UNCHANGED <<consumerVars, genVars, sessVars, att, n_offsets, producerVars, decodeVars>>

\* offsets = self.offsets(self.topic_id, partid), and the test of end_offset
LatestOffsets ==
    /\ cl.pc = "offsets"
    /\ n_offsets' = n_offsets + 1
    /\ \E answer \in OffsetsAnswers :
          /\ att' = [reqs |-> <<OffsetsReq(cl.partid)>>,
                     offsets |-> IF answer.ok THEN <<answer.end_offset>> ELSE <<>>,
                     polled |-> <<>>,
                     http_error |-> IF answer.ok THEN "none" ELSE "offsets"]
          /\ cl' = IF ~answer.ok THEN attempt_raises(cl, "offsets", "HTTPError")
                   ELSE IF is_empty(answer.end_offset)
                        THEN [cl EXCEPT !.latestoffset = answer.end_offset,
                                        !.pc = "returned"]
                   ELSE [cl EXCEPT !.latestoffset = seek_target(answer.end_offset),
                                   !.pc = "seek"]
    /\ UNCHANGED <<consumerVars, genVars, sessVars, prelude, producerVars, decodeVars>>

\* self.seek(self.topic_id, partid, latestoffset)
LatestSeek ==
    /\ cl.pc = "seek"
    /\ \E ok \in BOOLEAN :
          /\ att' = [att EXCEPT !.reqs = Append(@, SeekReq(cl.partid, cl.latestoffset)),
                                !.http_error = IF ok THEN "none" ELSE "seek"]
          /\ cl' = IF ~ok THEN attempt_raises(cl, "seek", "HTTPError")
                   ELSE [cl EXCEPT !.pc = "poll"]
    /\ UNCHANGED <<consumerVars, genVars, sessVars, prelude, n_offsets, producerVars, decodeVars>>

\* the loop over self.consume_earliest(), and the test of response_decode
LatestPoll ==
    /\ cl.pc = "poll"
    /\ \E answer \in PollAnswers :
          LET poll == consume_earliest(answer.ok, answer.body)
              found == drain(cl.response_decode, poll.recs)
          IN  /\ att' = [att EXCEPT !.reqs = Append(@, RecordsReq),
                                    !.polled = IF poll.ok THEN <<poll.recs>> ELSE <<>>,
                                    !.http_error = IF answer.ok THEN "none" ELSE "poll"]
              /\ cl' = IF ~poll.ok THEN attempt_raises(cl, "poll", poll.exc)
                       ELSE IF found # PyNone
                            THEN [cl EXCEPT !.response_decode = found, !.pc = "returned"]
                       ELSE next_attempt([cl EXCEPT !.response_decode = found])
    /\ UNCHANGED <<consumerVars, genVars, sessVars, prelude, n_offsets, producerVars, decodeVars>>

LatestStep == LatestPartitions \/ LatestAssign \/ LatestOffsets \/ LatestSeek \/ LatestPoll

NextLatest == LatestCall \/ LatestStep

SpecLatest == Init /\ [][NextLatest]_vars

\* Python runs a call on to its end, and every request is answered
SpecLatestFair == SpecLatest /\ WF_vars(LatestStep)

(***************************************************************************)
(* Properties of consume_latest.                                           *)
(***************************************************************************)
LatestRunning == cl.pc \in {"partitions", "assign", "offsets", "seek", "poll"}
LatestEnded == cl.pc \in {"returned", "raised"}
InAttempt == cl.pc \in {"seek", "poll"}

\* the answer to the offsets query of the current attempt, when there is one
EndOffsetKnown == att.offsets # <<>>
EndOffset == att.offsets[1]

\* the current attempt ended without a record: by an HTTP error or an empty poll
AttemptWasted == att.http_error # "none" \/ att.polled = << <<>> >>

\* C4: consume_latest always terminates, after at most 10 attempts whatever
\* the proxy answers; it never issues an 11th offsets query.
C4_TerminatesWithinTenAttempts ==
    /\ [](n_offsets <= 10)
    /\ [](LatestRunning => <>LatestEnded)

\* ten attempts were made and the call returned
C4_Witness == cl.pc = "returned" /\ n_offsets = 10 /\ cl.retry = 0

\* C5: when the offsets query reports end_offset <= 0, consume_latest stops
\* at that attempt, with no seek, no poll and no further attempt, and
\* returns None.
C5_EmptyPartitionStops ==
    (EndOffsetKnown /\ EndOffset <= 0) =>
        /\ cl.pc = "returned"
        /\ att.reqs = <<OffsetsReq(cl.partid)>>
        /\ cl.response_decode = PyNone

\* the third attempt finds end_offset = 0, after two wasted attempts
C5_Witness ==
    /\ EndOffsetKnown /\ EndOffset = 0
    /\ n_offsets = 3
    /\ cl.pc = "returned"

\* C6: in the retry loop an HTTP error of the offsets query, the seek or the
\* poll never reaches the caller; it uses up exactly one attempt, as does an
\* empty poll, and the loop goes on; when all 10 attempts are used up so,
\* consume_latest returns None.
C6_HttpErrorsUseOneAttempt ==
    /\ (cl.pc = "raised" /\ cl.raised_at \in {"offsets", "seek", "poll"}) =>
          cl.exc # "HTTPError"
    /\ cl.pc = "offsets" => n_offsets = 10 - cl.retry
    /\ InAttempt => n_offsets = 10 - cl.retry + 1
    /\ (cl.pc \in {"offsets", "returned"} /\ AttemptWasted) =>
          /\ n_offsets = 10 - cl.retry
          /\ cl.pc = "offsets" <=> cl.retry > 0
          /\ cl.response_decode = PyNone

\* the tenth attempt ended in an HTTP error of the poll and None is returned
C6_Witness ==
    /\ cl.pc = "returned"
    /\ n_offsets = 10
    /\ att.http_error = "poll"
    /\ cl.response_decode = PyNone

\* C7: in an attempt with end_offset > 0 the seek goes to end_offset - 1 of
\* that attempt's answer, before the attempt's poll; a record returned is
\* the last record of the poll of the last attempt made.
C7_SeeksBeforeEndAndKeepsLast ==
    /\ Len(att.reqs) >= 2 =>
          /\ EndOffsetKnown /\ EndOffset > 0
          /\ att.reqs[2] = SeekReq(cl.partid, EndOffset - 1)
    /\ Len(att.reqs) >= 3 => att.reqs[3] = RecordsReq /\ Len(att.reqs) = 3
    /\ (EndOffsetKnown /\ EndOffset > 0) => (cl.pc = "seek" <=> Len(att.reqs) = 1)
    /\ (cl.pc = "returned" /\ cl.response_decode # PyNone) =>
          /\ att.polled # <<>>
          /\ att.polled[1] # <<>>
          /\ cl.response_decode = att.polled[1][Len(att.polled[1])]

\* the second attempt seeks to 1 (end_offset 2), polls two records and
\* returns the second
C7_Witness ==
    /\ cl.pc = "returned"
    /\ n_offsets = 2
    /\ EndOffsetKnown /\ EndOffset = 2
    /\ att.reqs = <<OffsetsReq(cl.partid), SeekReq(cl.partid, 1), RecordsReq>>
    /\ att.polled # <<>> /\ Len(att.polled[1]) = 2
    /\ att.polled[1][1] # att.polled[1][2]
    /\ cl.response_decode = att.polled[1][2]

\* C16: consume_latest issues one partitions query, then exactly one assign,
\* for the partition id of the first entry of the partitions answer, and only
\* then the attempts; the offsets query, the seek and the poll of every
\* attempt are for that partition, and no attempt repeats the assign.
C16_AssignOnceThenAttempts ==
    /\ Len(prelude) <= 2
    /\ prelude # <<>> => prelude[1] = PartitionsReq
    /\ Len(prelude) = 2 =>
          /\ cl.partitions # <<>>
          /\ prelude[2] = AssignReq(cl.partitions[1])
    /\ cl.pc = "partitions" => prelude = <<>>
    /\ cl.pc = "assign" => prelude = <<PartitionsReq>>
    /\ (att.reqs # <<>> \/ cl.pc \in {"offsets", "seek", "poll"}) => Len(prelude) = 2
    /\ Len(att.reqs) <= 3
    /\ \A i \in 1..Len(att.reqs) :
          /\ att.reqs[i].kind = <<"offsets", "positions", "records">>[i]
          /\ i <= 2 => att.reqs[i].partition = cl.partitions[1]

\* the partitions answer lists partition 1 first, and the second attempt
\* has made its three requests
C16_Witness ==
    /\ cl.partitions = <<1, 0>>
    /\ prelude = <<PartitionsReq, AssignReq(1)>>
    /\ n_offsets = 2
    /\ Len(att.reqs) = 3
    /\ att.reqs[1] = OffsetsReq(1)

(***************************************************************************)
(* The session: create, subscribe, consume_earliest, delete, and the       *)
(* consumer used as a context manager.  The caller makes any calls in any  *)
(* order (it may catch what a call raises and go on); each call runs to    *)
(* its end in one step.                                                    *)
(***************************************************************************)
MaxCalls == 4       \* most calls made on the consumer

CreateReq == [kind |-> "create"]
SubscriptionReq == [kind |-> "subscription"]
DeleteReq == [kind |-> "delete"]

\* the call being made is the next entry of calls
ThisCall == Len(calls) + 1

Sent(req, ok) == [req |-> req, ok |-> ok, call |-> ThisCall]

\* a call: the method, created before it, what it raised; for __exit__ also
\* the exception that ended the block
Called(op, exc) == [op |-> op, before |-> created, exc |-> exc, exc_type |-> "none"]

\* create() sets created before it knows the answer
after_create_regardless(is_created, ok) == TRUE

\* self.request(...); self.created = True
after_create(is_created, ok) == IF ok THEN TRUE ELSE is_created

\* delete() forgets to reset created
after_delete_keeps(is_created, ok) == is_created

\* self.request(...); self.created = False
after_delete(is_created, ok) == IF ok THEN FALSE ELSE is_created

\* create() posts whether or not the instance exists
create_posts_always(is_created) == TRUE

\* if not self.created:
create_posts(is_created) == ~is_created

\* the instance is deleted only when the block ended without an exception
exit_deletes_unless_raised(exc_type) == exc_type = "none"

\* __exit__: self.delete(), whatever exc_type is
exit_deletes(exc_type) == TRUE

\* Client.request: the requests sent so far and then this one; a non-2xx
\* answer raises HTTPError
request(sent, req, ok) == Append(sent, Sent(req, ok))

\* consumer.create()
Create ==
    /\ Len(calls) < MaxCalls
    /\ IF create_posts(created)
       THEN \E ok \in BOOLEAN :
               /\ log' = request(log, CreateReq, ok)
               /\ created' = after_create(created, ok)
               /\ calls' = Append(calls, Called("create", IF ok THEN "none" ELSE "HTTPError"))
       ELSE /\ calls' = Append(calls, Called("create", "none"))
            /\ UNCHANGED <<created, log>>
    /\ UNCHANGED <<remaining_keys, scope, genVars, latestVars, producerVars, decodeVars>>

\* consumer.subscribe()
Subscribe ==
    /\ Len(calls) < MaxCalls
    /\ \E ok \in BOOLEAN :
          /\ log' = request(log, SubscriptionReq, ok)
          /\ calls' = Append(calls, Called("subscribe", IF ok THEN "none" ELSE "HTTPError"))
    /\ UNCHANGED <<consumerVars, scope, genVars, latestVars, producerVars, decodeVars>>

\* the answers to a poll made directly: a non-2xx status, no record, or one
SinglePollAnswers == {a \in PollAnswers : Len(a.body) <= 1}

\* consumer.consume_earliest()
ConsumeEarliest ==
    /\ Len(calls) < MaxCalls
    /\ \E answer \in SinglePollAnswers :
          /\ log' = request(log, RecordsReq, answer.ok)
          /\ calls' = Append(calls, Called("consume_earliest",
                                consume_earliest(answer.ok, answer.body).exc))
    /\ UNCHANGED <<consumerVars, scope, genVars, latestVars, producerVars, decodeVars>>

\* consumer.delete()
Delete ==
    /\ Len(calls) < MaxCalls
    /\ \E ok \in BOOLEAN :
          /\ log' = request(log, DeleteReq, ok)
          /\ created' = after_delete(created, ok)
          /\ calls' = Append(calls, Called("delete", IF ok THEN "none" ELSE "HTTPError"))
    /\ UNCHANGED <<remaining_keys, scope, genVars, latestVars, producerVars, decodeVars>>

\* `with consumer:` is entered: __enter__ is self.create().subscribe(); the
\* block is entered only when neither raises
ScopeEnter ==
    /\ Len(calls) < MaxCalls
    /\ scope = "out"
    /\ \E ok1 \in BOOLEAN, ok2 \in BOOLEAN :
          LET posts == create_posts(created)
              create_ok == ~posts \/ ok1
              log1 == IF posts THEN request(log, CreateReq, ok1) ELSE log
              entered == create_ok /\ ok2
          IN  /\ log' = IF create_ok THEN request(log1, SubscriptionReq, ok2) ELSE log1
              /\ created' = IF posts THEN after_create(created, ok1) ELSE created
              /\ calls' = Append(calls, Called("enter", IF entered THEN "none"
                                                        ELSE "HTTPError"))
              /\ scope' = IF entered THEN "in" ELSE "out"
    /\ UNCHANGED <<remaining_keys, genVars, latestVars, producerVars, decodeVars>>

\* what may end the block: nothing (it completes), what its last call
\* raised, or an exception of the block's own code
BlockEndings ==
    {"none", "Exception"} \cup
        (IF calls[Len(calls)].op # "enter" THEN {calls[Len(calls)].exc} ELSE {})

\* the block is left: __exit__(exc_type, exc_val, exc_tb)
ScopeExit ==
    /\ scope = "in"
    /\ scope' = "out"
    /\ \E exc_type \in BlockEndings :
       IF exit_deletes(exc_type)
       THEN \E ok \in BOOLEAN :
               /\ log' = request(log, DeleteReq, ok)
               /\ created' = after_delete(created, ok)
               /\ calls' = Append(calls, [Called("exit", IF ok THEN "none" ELSE "HTTPError")
                                            EXCEPT !.exc_type = exc_type])
       ELSE /\ calls' = Append(calls, [Called("exit", "none") EXCEPT !.exc_type = exc_type])
            /\ UNCHANGED <<created, log>>
    /\ UNCHANGED <<remaining_keys, genVars, latestVars, producerVars, decodeVars>>

NextSession ==
    Create \/ Subscribe \/ ConsumeEarliest \/ Delete \/ ScopeEnter \/ ScopeExit

SpecSession == Init /\ [][NextSession]_vars

(***************************************************************************)
(* Properties of the session.                                              *)
(***************************************************************************)
Ops == [i \in 1..Len(calls) |-> calls[i].op]
Reqs == [n \in 1..Len(log) |-> log[n].req]
SentBy(j) == {n \in 1..Len(log) : log[n].call = j}
Succeeded(n, req) == log[n].req = req /\ log[n].ok

\* C8: create() is idempotent: called while created is true it issues no
\* request and changes nothing, so between two successful deletes at most
\* one create POST succeeds.
C8_CreateIdempotent ==
    /\ [][(created /\ Len(calls') = Len(calls) + 1 /\ calls'[Len(calls')].op = "create")
            => (UNCHANGED <<created, remaining_keys, log, scope>>
                /\ calls'[Len(calls')].exc = "none")]_vars
    /\ [](\A n \in 1..Len(log) : log[n].req = CreateReq => ~calls[log[n].call].before)
    /\ [](\A a \in 1..Len(log), b \in 1..Len(log) :
            (a < b /\ Succeeded(a, CreateReq) /\ Succeeded(b, CreateReq)) =>
                \E c \in (a + 1)..(b - 1) : Succeeded(c, DeleteReq))

\* create, create again (no request), delete, create: three requests
C8_Witness ==
    /\ Ops = <<"create", "create", "delete", "create">>
    /\ Reqs = <<CreateReq, DeleteReq, CreateReq>>
    /\ \A n \in 1..Len(log) : log[n].ok
    /\ created

\* C9: on a fresh consumer, with every request succeeding, create();
\* subscribe(); consume_earliest(); delete() issues exactly four requests:
\* create POST, subscription POST, records GET, instance DELETE, in that
\* order, and created is False at the end.
C9_LifecycleFourRequests ==
    (/\ Ops = <<"create", "subscribe", "consume_earliest", "delete">>
     /\ \A n \in 1..Len(log) : log[n].ok) =>
        /\ Reqs = <<CreateReq, SubscriptionReq, RecordsReq, DeleteReq>>
        /\ ~created

\* the four calls were made, none raised
C9_Witness ==
    /\ Ops = <<"create", "subscribe", "consume_earliest", "delete">>
    /\ \A i \in 1..Len(calls) : calls[i].exc = "none"
    /\ Len(log) = 4
    /\ ~created

\* C10: when the block of `with consumer:` has been entered, then however it
\* ends, the exit issues the instance DELETE exactly once, after every
\* request of the block.
C10_ExitDeletesOnce ==
    \A j \in 1..Len(calls) :
        calls[j].op = "exit" =>
            /\ Cardinality(SentBy(j)) = 1
            /\ \A n \in SentBy(j) :
                  /\ log[n].req = DeleteReq
                  /\ \A m \in 1..Len(log) : log[m].call < j => m < n

\* the block was entered, its consume_earliest failed with an HTTP error,
\* and that error ended the block
C10_Witness ==
    /\ Len(calls) = 3
    /\ calls[1].op = "enter" /\ calls[1].exc = "none"
    /\ calls[2].op = "consume_earliest" /\ calls[2].exc = "HTTPError"
    /\ calls[3].op = "exit" /\ calls[3].exc_type = "HTTPError"
    /\ Reqs[Len(log)] = DeleteReq

\* the scope opened by call j has been left: entering it failed, or the
\* block was left later
ScopeLeft(j) ==
    /\ calls[j].op = "enter"
    /\ \/ calls[j].exc # "none"
       \/ \E i \in (j + 1)..Len(calls) : calls[i].op = "exit"

\* C11: once a scope has been left, entry that failed at subscribe after a
\* successful create included, every instance successfully created on the
\* proxy up to then has had a DELETE request issued for it.
C11_NoLeakAfterScope ==
    \A j \in 1..Len(calls) :
        ScopeLeft(j) =>
            \A n \in 1..Len(log) :
                (Succeeded(n, CreateReq) /\ log[n].call <= j) =>
                    \E m \in (n + 1)..Len(log) : log[m].req = DeleteReq

\* the same, for the scopes whose entry did not fail
C11_NoLeakWhenEntered ==
    \A j \in 1..Len(calls) :
        (ScopeLeft(j) /\ calls[j].exc = "none") =>
            \A n \in 1..Len(log) :
                (Succeeded(n, CreateReq) /\ log[n].call <= j) =>
                    \E m \in (n + 1)..Len(log) : log[m].req = DeleteReq

\* the last of a non-empty set of positions
Latest(S) == CHOOSE n \in S : \A m \in S : m <= n

\* the create and delete requests that succeeded
Lifecycle == {n \in 1..Len(log) : log[n].ok /\ log[n].req \in {CreateReq, DeleteReq}}

\* C18: created is true exactly when the most recent successful create or
\* delete request was a create; a create or delete whose request fails
\* leaves created as it was.
C18_CreatedTracksLastSuccess ==
    created = (Lifecycle # {} /\ log[Latest(Lifecycle)].req = CreateReq)

\* a create failed, the next one succeeded, then a delete failed: created
\* is still true
C18_Witness ==
    /\ Ops = <<"create", "create", "delete">>
    /\ ~log[1].ok /\ log[2].ok /\ ~log[3].ok
    /\ Reqs = <<CreateReq, CreateReq, DeleteReq>>
    /\ created

(***************************************************************************)
(* The consumer used as `with consumer:` on a fresh instance, the block    *)
(* calling consume_latest: the requests of scope entry and exit are in     *)
(* log, those of the running consume_latest in prelude and att.            *)
(***************************************************************************)

\* `with consumer:` on the fresh consumer
ScopedEnter == calls = <<>> /\ ScopeEnter

\* the block calls consumer.consume_latest, which runs on
ScopedLatest == scope = "in" /\ NextLatest

\* the block is left, by its end or by an exception
ScopedExit == ~LatestRunning /\ ScopeExit

NextScoped == ScopedEnter \/ ScopedLatest \/ ScopedExit

SpecScoped == Init /\ [][NextScoped]_vars

\* the requests of the consume_latest call, as far as they are recorded
LatestReqs == prelude \o att.reqs

SubscriptionIssued == \E n \in 1..Len(log) : log[n].req.kind = "subscription"
AssignmentIssued == \E i \in 1..Len(LatestReqs) : LatestReqs[i].kind = "assignments"

\* C17 as stated: the client never issues both a subscription request and
\* an assignment request for one instance between its creation and its
\* deletion (here: the instance of the scope, deleted by the exit only).
C17_OneModePerInstance == ~(SubscriptionIssued /\ AssignmentIssued)

\* C17, amended: each operation keeps to one mode: scope entry issues the
\* only subscription request and no assignment, consume_latest issues one
\* assignment and no subscription; both modes meet on one instance only
\* when consume_latest is called in the block of a scope that was entered.
C17_OneModePerOperation ==
    /\ \A n \in 1..Len(log) :
          /\ log[n].req.kind = "subscription" => calls[log[n].call].op = "enter"
          /\ log[n].req.kind # "assignments"
    /\ \A i \in 1..Len(LatestReqs) : LatestReqs[i].kind # "subscription"
    /\ Cardinality({i \in 1..Len(prelude) : prelude[i].kind = "assignments"}) <= 1
    /\ \A i \in 1..Len(att.reqs) : att.reqs[i].kind # "assignments"
    /\ (SubscriptionIssued /\ AssignmentIssued) =>
          /\ calls[1].op = "enter" /\ calls[1].exc = "none"
          /\ cl.pc # "idle"

\* inside the scope consume_latest has assigned its partition and returned
\* a record: the instance was subscribed and assigned
C17_Witness ==
    /\ scope = "in"
    /\ Reqs = <<CreateReq, SubscriptionReq>>
    /\ \A n \in 1..Len(log) : log[n].ok
    /\ cl.pc = "returned" /\ cl.response_decode # PyNone
    /\ prelude = <<PartitionsReq, AssignReq(cl.partid)>>

(***************************************************************************)
(* Producer.produce.  Each call runs to its end in one step; the proxy     *)
(* answers the POST with a 2xx status or not.                              *)
(***************************************************************************)

\* if not keys: an absent key list, and an empty one
not_keys(keys) == keys.t = "NoneType" \/ keys.v = <<>>

\* Producer.__manage_keys
manage_keys(len_messages, keys) ==
    IF not_keys(keys) THEN [ok |-> TRUE, keys |-> UuidKeys(len_messages), exc |-> "none"]
    ELSE IF Len(keys.v) # len_messages
         THEN [ok |-> FALSE, keys |-> <<>>, exc |-> "ValueError"]
    ELSE [ok |-> TRUE, keys |-> keys.v, exc |-> "none"]

\* Producer._check_data_size: `<` between a str and an int raises TypeError
check_data_size(max, size) ==
    IF max.t # "int" THEN Raise("TypeError")
    ELSE IF max.v < size THEN Raise("RuntimeError")
    ELSE Return(PyNone)

\* the keys are recorded before the request is made
history_after_eager(history, keys, ok) == history \o keys

\* self.request(...); self.key_history.extend(keys)
history_after(history, keys, ok) == IF ok THEN history \o keys ELSE history

\* self.request(...); self.key_last_request = keys
last_request_after(last, keys, ok) == IF ok THEN keys ELSE last

\* producer.produce(messages, endpoint, keys, key_schema, value_schema)
Produce ==
    \E len_messages \in BatchSizes, keys \in KeysArgs,
       schemas \in Schemas, ok \in BOOLEAN :
          LET managed == manage_keys(len_messages, keys)
              size == body_size(len_messages, schemas)
              check == check_data_size(max_data_bytes, size)
              sent == managed.ok /\ check.ok
              exc == IF ~managed.ok THEN managed.exc
                     ELSE IF ~check.ok THEN check.exc
                     ELSE IF ~ok THEN "HTTPError" ELSE "none"
          IN  /\ exc = "none" => Len(accepted) < MaxProduces
              /\ UNCHANGED <<max_data_bytes, consumerVars, genVars, latestVars,
                             sessVars, decodeVars>>
              /\ pcall' = [messages |-> len_messages, keys |-> keys,
                           used |-> managed.keys, size |-> size,
                           sent |-> sent, exc |-> exc]
              /\ key_history' = IF sent THEN history_after(key_history, managed.keys, ok)
                                ELSE key_history
              /\ key_last_request' = IF sent
                                     THEN last_request_after(key_last_request, managed.keys, ok)
                                     ELSE key_last_request
              /\ accepted' = IF exc = "none" THEN Append(accepted, managed.keys)
                             ELSE accepted

NextProducer == Produce

\* a producer made with any of the configurations
InitProducer ==
    /\ ConsumerInit
    /\ \E max_data_size \in ProducerConfigs : ProducerInit(max_data_size)
    /\ decoded = <<>>

SpecProducer == InitProducer /\ [][NextProducer]_vars

(***************************************************************************)
(* Properties of produce.                                                  *)
(***************************************************************************)
KeysSupplied == pcall.keys.t = "list"
KeyCountDiffers == KeysSupplied /\ Len(pcall.keys.v) # pcall.messages
ProduceCalled == pcall # NoProduce

\* C12: a produce call whose keys are supplied in a number different from
\* the number of messages (an empty key list with a non-empty batch
\* included) raises the validation error, sends no request, and uses no
\* generated key.
C12_KeyCountMismatchRejected ==
    KeyCountDiffers =>
        /\ pcall.exc = "ValueError"
        /\ ~pcall.sent
        /\ pcall.used = <<>>

\* the same, for the key lists that are not empty
C12_NonEmptyMismatchRejected ==
    (KeyCountDiffers /\ pcall.keys.v # <<>>) =>
        /\ pcall.exc = "ValueError"
        /\ ~pcall.sent
        /\ pcall.used = <<>>

\* the call got as far as the size check
SizeChecked == ProduceCalled /\ pcall.exc # "ValueError"

\* C13: a produce call whose body is larger than the configured maximum
\* fails with the size error and sends no request; a body of exactly the
\* maximum is sent.
C13_OversizeRejectedExactSent ==
    SizeChecked =>
        /\ pcall.size > max_data_bytes.v => (pcall.exc = "RuntimeError" /\ ~pcall.sent)
        /\ pcall.size = max_data_bytes.v => pcall.sent

\* the same, for a maximum given to the constructor as a number
C13_NumericMaximum ==
    (SizeChecked /\ max_data_bytes.t = "int") =>
        /\ pcall.size > max_data_bytes.v => (pcall.exc = "RuntimeError" /\ ~pcall.sent)
        /\ pcall.size = max_data_bytes.v => pcall.sent

RECURSIVE Flatten(_)
Flatten(lists) == IF lists = <<>> THEN <<>> ELSE Head(lists) \o Flatten(Tail(lists))

\* C14: the cumulative key history is the in-order concatenation of the key
\* lists of exactly the calls that succeeded, the most-recent list is that
\* of the last of them, and a call that fails changes neither.
C14_HistoryOfSuccessfulCalls ==
    /\ key_history = Flatten(accepted)
    /\ key_last_request = IF accepted = <<>> THEN <<>> ELSE accepted[Len(accepted)]
    /\ pcall.exc = "none" =>
          (accepted = <<>> \/ accepted[Len(accepted)] = pcall.used)

\* a call with keys k1, k2 succeeded, one with key k2 succeeded, and the
\* last call was sent and failed at the proxy
C14_Witness ==
    /\ accepted = << <<Str("k1"), Str("k2")>>, <<Str("k2")>> >>
    /\ key_history = <<Str("k1"), Str("k2"), Str("k2")>>
    /\ key_last_request = <<Str("k2")>>
    /\ pcall.exc = "HTTPError" /\ pcall.sent /\ pcall.used = <<Str("k1")>>

(***************************************************************************)
(* Consumer.decode_base64 applied to the values and strings of the model.  *)
(***************************************************************************)
DecodeInputs ==
    {Str(s) : s \in TextStrings \cup {"jobj", "b64k1", "b64raw", "pad"}}
        \cup {Dict("obj"), PyNone}

\* Consumer.decode_base64(string) is called
DecodeCall ==
    /\ Len(decoded) < MaxDecodes
    /\ \E string \in DecodeInputs :
          decoded' = Append(decoded, [input |-> string, outcome |-> decode_base64(string)])
    /\ UNCHANGED <<consumerVars, genVars, latestVars, sessVars, producerVars>>

NextDecode == DecodeCall

SpecDecode == Init /\ [][NextDecode]_vars

\* text that is neither JSON nor base64
NeitherJsonNorBase64(string) ==
    string.t = "str" /\ ~json_loads(string).ok /\ ~b64decode(string).ok

\* C15: decode_base64 never raises: for every input string it returns a
\* value, and for text that is neither JSON nor base64 it returns the input.
C15_DecodeNeverFails ==
    \A i \in 1..Len(decoded) :
        decoded[i].input.t = "str" =>
            /\ decoded[i].outcome.ok
            /\ NeitherJsonNorBase64(decoded[i].input) =>
                  decoded[i].outcome.val = decoded[i].input

\* the same, for the strings that are JSON or that base64 accepts
C15_DecodeOfJsonOrBase64 ==
    \A i \in 1..Len(decoded) :
        (decoded[i].input.t = "str" /\ ~NeitherJsonNorBase64(decoded[i].input)) =>
            decoded[i].outcome.ok

====
